---- MODULE Spec2Model ----
(***************************************************************************)
(* Techshell: the read / parse / execute loop of src/techshell.c.          *)
(*                                                                         *)
(* Text is modelled character by character: a C string is a sequence of    *)
(* one-character strings, the line buffer is such a sequence in which      *)
(* strtok writes NUL characters, and a token is the character sequence     *)
(* strtok returns.  The interpreter and the child it forks are two         *)
(* processes; the file system and the programs on the search path are the  *)
(* environment.                                                            *)
(***************************************************************************)
EXTENDS Integers, Sequences, FiniteSets, TLC

\* ------------------------------------------------------------------------
\* Program constants
\* ------------------------------------------------------------------------
MAX_INPUT == 1024
MAX_ARGS == 100

\* ------------------------------------------------------------------------
\* Bounds of the model
\* ------------------------------------------------------------------------
\* Largest number of fragments joined into one typed line.
MaxWords == 3

\* ------------------------------------------------------------------------
\* C strings
\* ------------------------------------------------------------------------
\* The null pointer.  strtok never returns an empty token, so the empty
\* sequence is free to stand for "no string".
NULL == << >>

\* The character '\0'.
NUL == "\\0"

\* The delimiter string " \n" handed to strtok.
DELIM == {" ", "\n"}

\* buf[k] of a buffer whose terminating '\0' sits right after its last
\* stored character.
CharAt(buf, k) == IF k <= Len(buf) THEN buf[k] ELSE NUL

\* The first position at or after p where a character not in `stop` is.
\* (strspn / strcspn / strlen are all scans of this shape; the terminating
\* NUL at Len(buf)+1 ends every scan the code makes.)
ScanWhile(buf, p, skip) ==
    CHOOSE k \in p..(Len(buf) + 1) :
        /\ CharAt(buf, k) \notin skip
        /\ \A j \in p..(k - 1) : CharAt(buf, j) \in skip

\* The first position at or after p where a character of `stop` is.
ScanUntil(buf, p, stop) ==
    CHOOSE k \in p..(Len(buf) + 1) :
        /\ CharAt(buf, k) \in stop
        /\ \A j \in p..(k - 1) : CharAt(buf, j) \notin stop

\* The C string that starts at position p of buf: up to the next NUL.
CStr(buf, p) == SubSeq(buf, p, ScanUntil(buf, p, {NUL}) - 1)

\* strcmp(a, b) == 0 for two C strings given by their characters.
StrEq(a, b) == a = b

\* The words the code compares against.
STR_LT == <<"<">>
STR_GT == <<">">>
STR_EXIT == <<"e", "x", "i", "t">>
STR_CD == <<"c", "d">>
STR_NL == <<"\n">>

\* ------------------------------------------------------------------------
\* strtok (lines 100, 107, 113, 122)
\* ------------------------------------------------------------------------
\* Variant of Strtok: the end of the token is found but no NUL is written
\* over the delimiter (a tokenizer that leaves the buffer as it was).
Strtok_readonly(buf, save) ==
    LET s == ScanWhile(buf, save, DELIM)
        e == ScanUntil(buf, s, DELIM \cup {NUL})
    IN  IF CharAt(buf, s) = NUL
        THEN [tok |-> NULL, buf |-> buf, save |-> s]
        ELSE [tok |-> SubSeq(buf, s, e - 1), buf |-> buf,
              save |-> IF CharAt(buf, e) = NUL THEN e ELSE e + 1]

\* One call of strtok on the buffer buf with the saved position save
\* (strtok(input, ...) is the call with save = 1).  It skips delimiters,
\* returns the token that starts there and overwrites the delimiter that
\* ends it with NUL; at the end of the string it returns NULL and stays
\* there, so that a call after exhaustion returns NULL again.
Strtok(buf, save) ==
    LET s == ScanWhile(buf, save, DELIM)
        e == ScanUntil(buf, s, DELIM \cup {NUL})
    IN  IF CharAt(buf, s) = NUL
        THEN [tok |-> NULL, buf |-> buf, save |-> s]
        ELSE IF CharAt(buf, e) = NUL
             THEN [tok |-> SubSeq(buf, s, e - 1), buf |-> buf, save |-> e]
             ELSE [tok |-> SubSeq(buf, s, e - 1),
                   buf |-> [buf EXCEPT ![e] = NUL],
                   save |-> e + 1]

\* ------------------------------------------------------------------------
\* struct ShellCommand and parseInput (lines 25-30, 90-129)
\* ------------------------------------------------------------------------
\* The state of one run of parseInput: the buffer strtok works on and its
\* saved position, the current token, the fields of `command`, the index i,
\* and the largest index of args written so far (-1: none).
\*   args       the entries args[0..] stored inside the array, in order;
\*   inputFile, outputFile   the two pointer fields that follow the array;
\*   alias      whether a store past the array reaches those two fields.
ParseStart(input) ==
    LET t == Strtok(input, 1)
    IN  [buf |-> t.buf, save |-> t.save, token |-> t.tok,
         args |-> << >>, inputFile |-> NULL, outputFile |-> NULL,
         i |-> 0, widx |-> -1, alias |-> TRUE]

\* args[idx] = val.  The array has MAX_ARGS entries; in struct ShellCommand
\* the field inputFile lies where args[MAX_ARGS] would be and outputFile
\* where args[MAX_ARGS + 1] would be, so a store past the array lands in
\* those fields, and a store past them lands outside the struct.  A build
\* that holds the two fields in registers while the loop runs does not see
\* such a store in them (alias = FALSE).
StoreArg(st, idx, val) ==
    LET w == [st EXCEPT !.widx = IF idx > st.widx THEN idx ELSE st.widx]
    IN  IF idx < MAX_ARGS
        THEN IF val = NULL THEN w ELSE [w EXCEPT !.args = Append(st.args, val)]
        ELSE IF ~st.alias THEN w
        ELSE IF idx = MAX_ARGS THEN [w EXCEPT !.inputFile = val]
        ELSE IF idx = MAX_ARGS + 1 THEN [w EXCEPT !.outputFile = val]
        ELSE w

\* token = strtok(NULL, " \n") (line 122, and the lookahead of 107 and 113).
NextToken(st) ==
    LET t == Strtok(st.buf, st.save)
    IN  [st EXCEPT !.buf = t.buf, !.save = t.save, !.token = t.tok]

\* Variant of TakeInput: with no token after "<" the operator itself is
\* kept as the path.
TakeInput_keep(st) ==
    LET n == NextToken(st)
    IN  [n EXCEPT !.inputFile = IF n.token = NULL THEN st.token ELSE n.token]

\* Lines 105-109: the token after "<" becomes inputFile (NULL if none).
TakeInput(st) ==
    LET n == NextToken(st) IN [n EXCEPT !.inputFile = n.token]

\* Variant of TakeOutput: the path after ">" is recorded but not consumed,
\* so the loop sees it again as an ordinary token.
TakeOutput_peek(st) ==
    [st EXCEPT !.outputFile = NextToken(st).token]

\* Lines 111-115: the token after ">" becomes outputFile (NULL if none).
TakeOutput(st) ==
    LET n == NextToken(st) IN [n EXCEPT !.outputFile = n.token]

\* Lines 117-120: command.args[i++] = token.
TakeArg(st) ==
    [StoreArg(st, st.i, st.token) EXCEPT !.i = st.i + 1]

\* One turn of the loop of lines 102-123; with no token left the loop has
\* ended and nothing changes.
ParseStep(st) ==
    IF st.token = NULL THEN st
    ELSE IF StrEq(st.token, STR_LT) THEN NextToken(TakeInput(st))
    ELSE IF StrEq(st.token, STR_GT) THEN NextToken(TakeOutput(st))
    ELSE NextToken(TakeArg(st))

\* Up to n turns of the loop, stopping once no token is left (the turns are
\* split in halves to keep the evaluation shallow).
RECURSIVE ParseTurns(_, _)
ParseTurns(st, n) ==
    IF n <= 0 \/ st.token = NULL THEN st
    ELSE IF n = 1 THEN ParseStep(st)
    ELSE LET half == ParseTurns(st, n \div 2)
         IN  IF half.token = NULL THEN half
             ELSE ParseTurns(half, n - (n \div 2))

\* The while loop: every turn consumes at least one character of the
\* buffer, so Len(input) turns reach the end of the tokens.
ParseLoop(input) == ParseTurns(ParseStart(input), Len(input))

\* parseInput(input): the loop, then command.args[i] = NULL (line 126).
parseInput(input) ==
    LET fin == ParseLoop(input)
    IN  StoreArg(fin, fin.i, NULL)

\* parseInput as built with the two fields in registers.
parseInputInRegisters(input) ==
    LET fin == ParseTurns([ParseStart(input) EXCEPT !.alias = FALSE], Len(input))
    IN  StoreArg(fin, fin.i, NULL)

\* What a call of parseInput can return.  While every store stays inside
\* args the result is determined; a store past args[MAX_ARGS - 1] is
\* undefined behaviour, and the builds differ in what the fields then hold.
ParseResults(input) ==
    LET st == parseInput(input)
    IN  IF st.widx < MAX_ARGS THEN {st} ELSE {st, parseInputInRegisters(input)}

\* The struct parseInput returns.
CommandOf(st) ==
    [args |-> st.args, inputFile |-> st.inputFile, outputFile |-> st.outputFile]

\* The value of `command` in main before the first line is parsed.
NoCommand == [args |-> << >>, inputFile |-> NULL, outputFile |-> NULL]

\* command.args[k] as executeCommand reads it (k = 0, 1): NULL past the
\* stored arguments.
Arg(cmd, k) == IF k < Len(cmd.args) THEN cmd.args[k + 1] ELSE NULL

\* ------------------------------------------------------------------------
\* Environment: directories, files, programs
\* ------------------------------------------------------------------------
\* A directory is the sequence of its component names from the root.
DIR_A == <<"a">>
ROOT == << >>
Dirs == {ROOT, <<DIR_A>>}

\* The components of a path between its '/' characters, from position p.
RECURSIVE Components(_, _)
Components(path, p) ==
    IF p > Len(path) THEN << >>
    ELSE LET e == ScanUntil(path, p, {"/", NUL})
         IN  <<SubSeq(path, p, e - 1)>> \o Components(path, e + 1)

\* Path resolution from directory d: "" and "." stay, ".." goes up, a name
\* goes down if that directory exists.
RECURSIVE Walk(_, _)
Walk(d, comps) ==
    IF comps = << >> THEN [ok |-> TRUE, dir |-> d]
    ELSE LET c == Head(comps)
         IN  IF c = << >> \/ c = <<".">> THEN Walk(d, Tail(comps))
             ELSE IF c = <<".", ".">>
                  THEN Walk(IF d = ROOT THEN ROOT ELSE SubSeq(d, 1, Len(d) - 1),
                            Tail(comps))
                  ELSE IF Append(d, c) \in Dirs
                       THEN Walk(Append(d, c), Tail(comps))
                       ELSE [ok |-> FALSE, dir |-> d]

\* The directory a path names, seen from the working directory wd.
Lookup(wd, path) ==
    Walk(IF path[1] = "/" THEN ROOT ELSE wd, Components(path, 1))

\* chdir(path) in a process whose working directory is wd (line 157).
Chdir(wd, path) ==
    LET r == Lookup(wd, path)
    IN  IF r.ok THEN [ok |-> TRUE, cwd |-> r.dir, errno |-> "0"]
        ELSE [ok |-> FALSE, cwd |-> wd, errno |-> "ENOENT"]

\* getcwd: the absolute path of the working directory (line 51).
RECURSIVE Getcwd(_)
Getcwd(wd) ==
    IF wd = ROOT THEN <<"/">>
    ELSE IF Len(wd) = 1 THEN <<"/">> \o wd[1]
    ELSE Getcwd(SubSeq(wd, 1, Len(wd) - 1)) \o <<"/">> \o wd[Len(wd)]

\* The possible results of open(path, O_RDONLY) (line 184): a directory
\* opens; whether a file of that name exists is up to the environment.
OpenRead(wd, path) ==
    IF Lookup(wd, path).ok THEN {"0"} ELSE {"0", "ENOENT"}

\* The possible results of open(path, O_WRONLY | O_CREAT | O_TRUNC, 0644)
\* (lines 200-202): a directory refuses; otherwise the environment decides.
OpenWrite(wd, path) ==
    IF Lookup(wd, path).ok THEN {"EISDIR"} ELSE {"0", "EACCES"}

\* The programs execvp finds (line 216).
STR_LS == <<"l", "s">>
Programs == {STR_LS}
Execvp(prog) == IF prog \in Programs THEN "0" ELSE "ENOENT"

\* ------------------------------------------------------------------------
\* What the user can type
\* ------------------------------------------------------------------------
STR_DIR_A == <<"/", "a">>
STR_DIR_A_UP == <<"/", "a", "/", ".", ".">>
STR_FILE_X == <<"/", "x">>

\* The fragments typed lines are made of: nothing (which yields extra
\* blanks), the built-ins, a program, paths, the operators alone and the
\* operators followed by a path.
Fragments ==
    { << >>, STR_EXIT, STR_CD, STR_LS, STR_DIR_A, STR_DIR_A_UP, STR_LT, STR_GT,
      STR_LT \o <<" ">> \o STR_FILE_X, STR_GT \o <<" ">> \o STR_FILE_X }

RECURSIVE JoinWords(_)
JoinWords(ws) ==
    IF ws = << >> THEN << >>
    ELSE IF Len(ws) = 1 THEN ws[1]
    ELSE ws[1] \o <<" ">> \o JoinWords(Tail(ws))

\* `first` followed by n - 1 further one-letter arguments: n tokens.
ManyArgs(first, n) ==
    first \o [k \in 1..(2 * (n - 1)) |-> IF k % 2 = 1 THEN " " ELSE "a"]

\* A line longer than the input buffer: "ls", blanks up to the buffer's
\* capacity, then "exit".
Overlong ==
    STR_LS \o [k \in 1..(MAX_INPUT - 1 - Len(STR_LS)) |-> " "] \o STR_EXIT

\* The lines a user may type, each ended by its newline: up to MaxWords
\* fragments separated by blanks, lines with MAX_ARGS - 1 and more
\* arguments, one of them behind two input redirects, and the overlong line.
TypedLines ==
    { JoinWords(ws) \o STR_NL :
        ws \in UNION { [1..n -> Fragments] : n \in 0..MaxWords } }
    \cup { ManyArgs(STR_LS, MAX_ARGS - 1) \o STR_NL,
           ManyArgs(STR_LS, MAX_ARGS) \o STR_NL,
           ManyArgs(STR_LS, MAX_ARGS + 1) \o STR_NL,
           ManyArgs(STR_LS, MAX_ARGS + 1) \o <<" ">> \o STR_LT \o STR_NL,
           ManyArgs(STR_EXIT, MAX_ARGS + 3) \o STR_NL,
           STR_LT \o <<" ">> \o STR_DIR_A \o <<" ">> \o STR_LT \o <<" ">>
               \o STR_FILE_X \o <<" ">> \o ManyArgs(STR_LS, MAX_ARGS + 1) \o STR_NL,
           Overlong \o STR_NL }

\* ------------------------------------------------------------------------
\* State
\* ------------------------------------------------------------------------
VARIABLES
    pc,        \* where main is: "prompt", "read", "got", "execute", "wait", "done"
    status,    \* how the interpreter ended: "running", "exit0", "exit1", "killed"
    cwd,       \* the interpreter's working directory
    fds,       \* what the interpreter's standard descriptors are bound to
    stdin,     \* characters of the typed line that fgets has not yet taken
    input,     \* the line buffer (NULL when none is allocated)
    command,   \* main's struct ShellCommand
    widx,      \* largest index of command.args the last parseInput wrote
    children,  \* the interpreter's child processes that have not been reaped
    out,       \* what was written in this iteration, in order
    opens,     \* the open calls made in this iteration, in order
    execd,     \* the programs whose image a child took in this iteration
    cdarg      \* argument of the last successful cd if absolute, else NULL

vars == <<pc, status, cwd, fds, stdin, input, command, widx, children, out,
          opens, execd, cdarg>>

\* The terminal every standard descriptor starts on.  On a terminal stdio
\* writes a text when it is printed (a line at its newline, the prompt when
\* input is asked for), so a printf is modelled as the write it causes.
TTY == <<"tty">>

Init ==
    /\ pc = "prompt"
    /\ status = "running"
    /\ cwd = ROOT
    /\ fds = [stdin |-> TTY, stdout |-> TTY, stderr |-> TTY]
    /\ stdin = << >>
    /\ input = NULL
    /\ command = NoCommand
    /\ widx = -1
    /\ children = {}
    /\ out = << >>
    /\ opens = << >>
    /\ execd = << >>
    /\ cdarg = NULL

\* One write: who wrote, on which descriptor, what that descriptor is bound
\* to, and the text.
Written(by, fd, to, text) == [by |-> by, fd |-> fd, to |-> to, text |-> text]

\* printf("Error %d (%s)\n", errno, strerror(errno)) on standard output.
ErrorText(errno) == <<"Error ", errno, "\n">>

\* ------------------------------------------------------------------------
\* displayPrompt (lines 46-55)
\* ------------------------------------------------------------------------
\* The text of the prompt.  The working directory is one of Dirs, whose
\* paths fit the 1024-byte buffer, so getcwd succeeds.
PromptText(wd) == Getcwd(wd) \o <<"$", " ">>

\* main, line 243: a new iteration begins and the prompt is printed.
DisplayPrompt ==
    /\ pc = "prompt"
    /\ pc' = "read"
    /\ out' = <<Written("shell", "stdout", fds.stdout, PromptText(cwd))>>
    /\ opens' = << >>
    /\ execd' = << >>
    /\ UNCHANGED <<status, cwd, fds, stdin, input, command, widx, children, cdarg>>

\* ------------------------------------------------------------------------
\* getInput (lines 63-81) and main's test of its result (247-248)
\* ------------------------------------------------------------------------
\* fgets(buffer, MAX_INPUT, stdin) on the pending characters s: it takes
\* characters up to and including the first newline, at most MAX_INPUT - 1.
Fgets(s) ==
    LET nl == ScanUntil(s, 1, {"\n", NUL})
        n == IF nl <= MAX_INPUT - 1 THEN nl ELSE MAX_INPUT - 1
        m == IF n <= Len(s) THEN n ELSE Len(s)
    IN  [chunk |-> SubSeq(s, 1, m), rest |-> SubSeq(s, m + 1, Len(s))]

\* malloc fails: perror and exit(1) (lines 67-71).
GetInputNoMemory ==
    /\ pc = "read"
    /\ pc' = "done"
    /\ status' = "exit1"
    /\ out' = Append(out, Written("shell", "stderr", fds.stderr, <<"malloc: ", "ENOMEM", "\n">>))
    /\ UNCHANGED <<cwd, fds, stdin, input, command, widx, children, opens, execd, cdarg>>

\* fgets returns NULL at the end of the input: getInput returns NULL and main
\* leaves the loop and returns 0 (lines 74-78, 247-248, 267).
GetInputEof ==
    /\ pc = "read"
    /\ stdin = << >>
    /\ pc' = "done"
    /\ status' = "exit0"
    /\ UNCHANGED <<cwd, fds, stdin, input, command, widx, children, out, opens, execd, cdarg>>

\* fgets fills the buffer from the line being typed (line 74, 80).
GetInput ==
    /\ pc = "read"
    /\ \E typed \in (IF stdin = << >> THEN TypedLines ELSE {stdin}) :
         LET r == Fgets(typed)
         IN  /\ input' = r.chunk
             /\ stdin' = r.rest
    /\ pc' = "got"
    /\ UNCHANGED <<status, cwd, fds, command, widx, children, out, opens, execd, cdarg>>

\* ------------------------------------------------------------------------
\* main, lines 250-265
\* ------------------------------------------------------------------------
\* strcmp(input, "\n") == 0 (line 251).
OnlyNewline(buf) == StrEq(CStr(buf, 1), STR_NL)

\* free(input) and back to the top of the loop (lines 253-254, 264).  The
\* pointers of `command` point into the freed buffer and are not read again
\* before parseInput overwrites the struct.
BackToLoop ==
    /\ pc' = "prompt"
    /\ input' = NULL
    /\ command' = NoCommand
    /\ widx' = -1

\* Lines 251-255: a line that is only a newline is skipped.
SkipNewline ==
    /\ pc = "got"
    /\ OnlyNewline(input)
    /\ BackToLoop
    /\ UNCHANGED <<status, cwd, fds, stdin, children, out, opens, execd, cdarg>>

\* Line 258: command = parseInput(input).  strtok works in the buffer.  A
\* store past args[MAX_ARGS - 1] is undefined behaviour: the process is
\* killed (stack protector, fault on return), or it goes on with what the
\* build left in the fields.
ParseInput ==
    /\ pc = "got"
    /\ ~OnlyNewline(input)
    /\ \E st \in ParseResults(input) :
           /\ input' = st.buf
           /\ command' = CommandOf(st)
           /\ widx' = st.widx
           /\ \/ /\ pc' = "execute"
                 /\ status' = status
              \/ /\ st.widx >= MAX_ARGS
                 /\ pc' = "done"
                 /\ status' = "killed"
    /\ UNCHANGED <<cwd, fds, stdin, children, out, opens, execd, cdarg>>

\* ------------------------------------------------------------------------
\* executeCommand in the interpreter (lines 136-174, 225-229)
\* ------------------------------------------------------------------------
\* Variant of CommandKind: "exit" is a built-in only when it stands alone.
CommandKind_exitalone(cmd) ==
    IF Arg(cmd, 0) = NULL THEN "empty"
    ELSE IF StrEq(Arg(cmd, 0), STR_EXIT) /\ Arg(cmd, 1) = NULL THEN "exit"
    ELSE IF StrEq(Arg(cmd, 0), STR_CD) THEN "cd"
    ELSE "external"

\* Which branch of executeCommand a command takes (lines 139, 145, 151).
CommandKind(cmd) ==
    IF Arg(cmd, 0) = NULL THEN "empty"
    ELSE IF StrEq(Arg(cmd, 0), STR_EXIT) THEN "exit"
    ELSE IF StrEq(Arg(cmd, 0), STR_CD) THEN "cd"
    ELSE "external"

\* Variant of ExecuteEmpty: without the test of args[0] the empty command
\* goes on to fork like an external one.
ExecuteEmpty_forks ==
    /\ pc = "execute"
    /\ CommandKind(command) = "empty"
    /\ children' = children \cup
            {[pid |-> 1, st |-> "in", cwd |-> cwd, fds |-> fds, code |-> "none"]}
    /\ pc' = "wait"
    /\ UNCHANGED <<status, cwd, fds, stdin, input, command, widx, out, opens,
                   execd, cdarg>>

\* Lines 139-140: an empty command does nothing.
ExecuteEmpty ==
    /\ pc = "execute"
    /\ CommandKind(command) = "empty"
    /\ BackToLoop
    /\ UNCHANGED <<status, cwd, fds, stdin, children, out, opens, execd, cdarg>>

\* Variant of ExecuteExit: the output redirect is applied in the interpreter
\* before the built-ins are looked at, so exit creates the file first.
ExecuteExit_truncates ==
    /\ pc = "execute"
    /\ CommandKind(command) = "exit"
    /\ pc' = "done"
    /\ status' = "exit0"
    /\ opens' = IF command.outputFile = NULL THEN opens
                ELSE Append(opens, [pid |-> 0, path |-> command.outputFile,
                                    mode |-> "w", errno |-> "0"])
    /\ UNCHANGED <<cwd, fds, stdin, input, command, widx, children, out,
                   execd, cdarg>>

\* Lines 145-146: exit(0).
ExecuteExit ==
    /\ pc = "execute"
    /\ CommandKind(command) = "exit"
    /\ pc' = "done"
    /\ status' = "exit0"
    /\ UNCHANGED <<cwd, fds, stdin, input, command, widx, children, out, opens,
                   execd, cdarg>>

\* Variant of CdBuiltin: a failed chdir is reported with perror, on the error
\* stream, instead of printf on standard output.
CdBuiltin_perror(cmd, wd, fd) ==
    IF Arg(cmd, 1) = NULL
    THEN [cwd |-> wd, ok |-> FALSE,
          out |-> <<Written("shell", "stderr", fd.stderr,
                            <<"cd: missing argument\n">>)>>]
    ELSE LET r == Chdir(wd, Arg(cmd, 1))
         IN  IF r.ok
             THEN [cwd |-> r.cwd, ok |-> TRUE, out |-> << >>]
             ELSE [cwd |-> wd, ok |-> FALSE,
                   out |-> <<Written("shell", "stderr", fd.stderr,
                                     ErrorText(r.errno))>>]

\* Variant of CdBuiltin: the directory change succeeds but does not reach
\* the interpreter's own working directory (as when chdir runs in a child).
CdBuiltin_elsewhere(cmd, wd, fd) ==
    IF Arg(cmd, 1) = NULL
    THEN [cwd |-> wd, ok |-> FALSE,
          out |-> <<Written("shell", "stderr", fd.stderr,
                            <<"cd: missing argument\n">>)>>]
    ELSE LET r == Chdir(wd, Arg(cmd, 1))
         IN  IF r.ok
             THEN [cwd |-> wd, ok |-> TRUE, out |-> << >>]
             ELSE [cwd |-> wd, ok |-> FALSE,
                   out |-> <<Written("shell", "stdout", fd.stdout,
                                     ErrorText(r.errno))>>]

\* The cd built-in (lines 153-161) in working directory wd: the new working
\* directory and what is written.
CdBuiltin(cmd, wd, fd) ==
    IF Arg(cmd, 1) = NULL
    THEN [cwd |-> wd, ok |-> FALSE,
          out |-> <<Written("shell", "stderr", fd.stderr,
                            <<"cd: missing argument\n">>)>>]
    ELSE LET r == Chdir(wd, Arg(cmd, 1))
         IN  IF r.ok
             THEN [cwd |-> r.cwd, ok |-> TRUE, out |-> << >>]
             ELSE [cwd |-> wd, ok |-> FALSE,
                   out |-> <<Written("shell", "stdout", fd.stdout,
                                     ErrorText(r.errno))>>]

\* Variant of ExecuteCd: a cd that fails ends the interpreter with status 1.
ExecuteCd_fatal ==
    /\ pc = "execute"
    /\ CommandKind(command) = "cd"
    /\ LET r == CdBuiltin(command, cwd, fds)
       IN  /\ cwd' = r.cwd
           /\ out' = out \o r.out
           /\ cdarg' = IF ~r.ok THEN cdarg
                       ELSE IF Arg(command, 1)[1] = "/" THEN Arg(command, 1)
                       ELSE NULL
           /\ IF r.ok
              THEN BackToLoop /\ status' = status
              ELSE /\ pc' = "done"
                   /\ status' = "exit1"
                   /\ UNCHANGED <<input, command, widx>>
    /\ UNCHANGED <<fds, stdin, children, opens, execd>>

\* Lines 151-163.
ExecuteCd ==
    /\ pc = "execute"
    /\ CommandKind(command) = "cd"
    /\ LET r == CdBuiltin(command, cwd, fds)
       IN  /\ cwd' = r.cwd
           /\ out' = out \o r.out
           /\ cdarg' = IF ~r.ok THEN cdarg
                       ELSE IF Arg(command, 1)[1] = "/" THEN Arg(command, 1)
                       ELSE NULL
    /\ BackToLoop
    /\ UNCHANGED <<status, fds, stdin, children, opens, execd>>

\* A process id not in use among the children cs.
NewPid(cs) ==
    CHOOSE p \in 1..(Cardinality(cs) + 1) : \A c \in cs : c.pid # p

\* The child fork creates (line 168): a copy of the interpreter, with its
\* working directory and descriptors, about to run line 182.
\*   st: "in", "out", "exec" (lines 182, 198, 216), "prog" (the program
\*   runs), "zombie" (terminated, not yet waited for).
ForkChild(cs, wd, fd) ==
    [pid |-> NewPid(cs), st |-> "in", cwd |-> wd, fds |-> fd, code |-> "none"]

\* Lines 168, 179, 225: fork succeeds; the interpreter goes on to wait.
ExecuteFork ==
    /\ pc = "execute"
    /\ CommandKind(command) = "external"
    /\ children' = children \cup {ForkChild(children, cwd, fds)}
    /\ pc' = "wait"
    /\ UNCHANGED <<status, cwd, fds, stdin, input, command, widx, out, opens,
                   execd, cdarg>>

\* Variant of ExecuteForkFails: after perror the function does not return
\* but goes on to the wait of line 228.
ExecuteForkFails_waits ==
    /\ pc = "execute"
    /\ CommandKind(command) = "external"
    /\ out' = Append(out, Written("shell", "stderr", fds.stderr,
                                  <<"fork: ", "EAGAIN", "\n">>))
    /\ pc' = "wait"
    /\ UNCHANGED <<status, cwd, fds, stdin, input, command, widx, children,
                   opens, execd, cdarg>>

\* Lines 170-174: fork fails; perror and return.
ExecuteForkFails ==
    /\ pc = "execute"
    /\ CommandKind(command) = "external"
    /\ out' = Append(out, Written("shell", "stderr", fds.stderr,
                                  <<"fork: ", "EAGAIN", "\n">>))
    /\ BackToLoop
    /\ UNCHANGED <<status, cwd, fds, stdin, children, opens, execd, cdarg>>

\* Variant of WaitBlocked: a wait that never blocks (as with WNOHANG).
WaitBlocked_never(cs) == FALSE

\* wait(NULL) (line 228) blocks while there are children and none of them
\* has terminated.
WaitBlocked(cs) == cs # {} /\ \A c \in cs : c.st # "zombie"

\* The children left when wait returns: it reaps one terminated child.
Reaped(cs) ==
    IF \E c \in cs : c.st = "zombie"
    THEN cs \ {CHOOSE c \in cs : c.st = "zombie"}
    ELSE cs

\* Line 228 returns, executeCommand returns, main frees the line.
WaitChild ==
    /\ pc = "wait"
    /\ ~WaitBlocked(children)
    /\ children' = Reaped(children)
    /\ BackToLoop
    /\ UNCHANGED <<status, cwd, fds, stdin, out, opens, execd, cdarg>>

\* ------------------------------------------------------------------------
\* executeCommand in the child (lines 179-221)
\* ------------------------------------------------------------------------
\* One open call, as recorded in `opens`.
Opened(c, path, mode, errno) ==
    [pid |-> c.pid, path |-> path, mode |-> mode, errno |-> errno]

\* Variant of ChildFails: the child prints the error but does not call
\* exit(1); it returns from executeCommand and stays alive as a second loop.
ChildFails_hang(c, errno) ==
    [child |-> [c EXCEPT !.st = "shell"],
     out |-> <<Written("child", "stdout", c.fds.stdout, ErrorText(errno))>>]

\* The child prints the error on its standard output and calls exit(1)
\* (lines 188-189, 206-207, 219-220).
ChildFails(c, errno) ==
    [child |-> [c EXCEPT !.st = "zombie", !.code = "exit1"],
     out |-> <<Written("child", "stdout", c.fds.stdout, ErrorText(errno))>>]

\* Variant of RedirectInput: a failed open is reported but the child goes
\* on to the output redirect instead of calling exit(1).
RedirectInput_goeson(c, cmd, errno) ==
    IF cmd.inputFile = NULL
    THEN [child |-> [c EXCEPT !.st = "out"], out |-> << >>, opens |-> << >>]
    ELSE [opens |-> <<Opened(c, cmd.inputFile, "r", errno)>>,
          child |-> [c EXCEPT !.st = "out"],
          out |-> IF errno # "0"
                  THEN <<Written("child", "stdout", c.fds.stdout, ErrorText(errno))>>
                  ELSE << >>]

\* Lines 182-195 with errno the result of the open call.
RedirectInput(c, cmd, errno) ==
    IF cmd.inputFile = NULL
    THEN [child |-> [c EXCEPT !.st = "out"], out |-> << >>, opens |-> << >>]
    ELSE [opens |-> <<Opened(c, cmd.inputFile, "r", errno)>>] @@
         (IF errno # "0"
          THEN ChildFails(c, errno)
          ELSE [child |-> [c EXCEPT !.st = "out", !.fds.stdin = cmd.inputFile],
                out |-> << >>])

\* Variant of RedirectOutput: the file is opened (created or truncated) but
\* the dup2 onto standard output is left out.
RedirectOutput_nodup(c, cmd, errno) ==
    IF cmd.outputFile = NULL
    THEN [child |-> [c EXCEPT !.st = "exec"], out |-> << >>, opens |-> << >>]
    ELSE [opens |-> <<Opened(c, cmd.outputFile, "w", errno)>>] @@
         (IF errno # "0"
          THEN ChildFails(c, errno)
          ELSE [child |-> [c EXCEPT !.st = "exec"], out |-> << >>])

\* Lines 198-213 with errno the result of the open call.
RedirectOutput(c, cmd, errno) ==
    IF cmd.outputFile = NULL
    THEN [child |-> [c EXCEPT !.st = "exec"], out |-> << >>, opens |-> << >>]
    ELSE [opens |-> <<Opened(c, cmd.outputFile, "w", errno)>>] @@
         (IF errno # "0"
          THEN ChildFails(c, errno)
          ELSE [child |-> [c EXCEPT !.st = "exec", !.fds.stdout = cmd.outputFile],
                out |-> << >>])

\* Variant of ExecProgram: after a failed execvp the child reports the error
\* but does not call exit(1); it returns from executeCommand.
ExecProgram_returns(c, cmd) ==
    LET errno == Execvp(Arg(cmd, 0))
    IN  IF errno = "0"
        THEN [child |-> [c EXCEPT !.st = "prog"], out |-> << >>,
              execd |-> <<Arg(cmd, 0)>>]
        ELSE [child |-> [c EXCEPT !.st = "shell"],
              out |-> <<Written("child", "stdout", c.fds.stdout, ErrorText(errno))>>,
              execd |-> << >>]

\* Lines 216-220: execvp replaces the image, or the child reports and exits.
ExecProgram(c, cmd) ==
    LET errno == Execvp(Arg(cmd, 0))
    IN  IF errno = "0"
        THEN [child |-> [c EXCEPT !.st = "prog"], out |-> << >>,
              execd |-> <<Arg(cmd, 0)>>]
        ELSE ChildFails(c, errno) @@ [execd |-> << >>]

ChildInput(c) ==
    /\ c.st = "in"
    /\ \E errno \in (IF command.inputFile = NULL THEN {"0"}
                     ELSE OpenRead(c.cwd, command.inputFile)) :
         LET r == RedirectInput(c, command, errno)
         IN  /\ children' = (children \ {c}) \cup {r.child}
             /\ out' = out \o r.out
             /\ opens' = opens \o r.opens
    /\ UNCHANGED <<pc, status, cwd, fds, stdin, input, command, widx, execd, cdarg>>

ChildOutput(c) ==
    /\ c.st = "out"
    /\ \E errno \in (IF command.outputFile = NULL THEN {"0"}
                     ELSE OpenWrite(c.cwd, command.outputFile)) :
         LET r == RedirectOutput(c, command, errno)
         IN  /\ children' = (children \ {c}) \cup {r.child}
             /\ out' = out \o r.out
             /\ opens' = opens \o r.opens
    /\ UNCHANGED <<pc, status, cwd, fds, stdin, input, command, widx, execd, cdarg>>

ChildExec(c) ==
    /\ c.st = "exec"
    /\ LET r == ExecProgram(c, command)
       IN  /\ children' = (children \ {c}) \cup {r.child}
           /\ out' = out \o r.out
           /\ execd' = execd \o r.execd
    /\ UNCHANGED <<pc, status, cwd, fds, stdin, input, command, widx, opens, cdarg>>

\* The program the child became terminates, by exit or by a signal.
ProgramEnds(c) ==
    /\ c.st = "prog"
    /\ \E code \in {"exit0", "exit1", "killed"} :
         children' = (children \ {c}) \cup {[c EXCEPT !.st = "zombie", !.code = code]}
    /\ UNCHANGED <<pc, status, cwd, fds, stdin, input, command, widx, out, opens,
                   execd, cdarg>>

\* ------------------------------------------------------------------------
\* Specification
\* ------------------------------------------------------------------------
Next ==
    \/ DisplayPrompt
    \/ GetInputNoMemory
    \/ GetInputEof
    \/ GetInput
    \/ SkipNewline
    \/ ParseInput
    \/ ExecuteEmpty
    \/ ExecuteExit
    \/ ExecuteCd
    \/ ExecuteFork
    \/ ExecuteForkFails
    \/ WaitChild
    \/ \E c \in children : ChildInput(c)
    \/ \E c \in children : ChildOutput(c)
    \/ \E c \in children : ChildExec(c)
    \/ \E c \in children : ProgramEnds(c)

Spec == Init /\ [][Next]_vars

\* The scheduler runs a process that can take a step: executeCommand, once
\* called, runs to its return, and so does the child; a program that was
\* started is assumed to end.  Nothing is assumed about the user typing.
ExecuteRuns ==
    \/ ExecuteEmpty
    \/ ExecuteExit
    \/ ExecuteCd
    \/ ExecuteFork
    \/ ExecuteForkFails
    \/ WaitChild

ChildRuns ==
    \E c \in children :
        ChildInput(c) \/ ChildOutput(c) \/ ChildExec(c) \/ ProgramEnds(c)

FairSpec == Spec /\ WF_vars(ExecuteRuns) /\ WF_vars(ChildRuns)

\* ------------------------------------------------------------------------
\* Properties
\* ------------------------------------------------------------------------
\* The texts written so far in this iteration that start with `head`.
Wrote(by, head) ==
    { k \in DOMAIN out : out[k].by = by /\ out[k].text[1] = head }

\* C1: at the top of the loop and while the prompt is on display the
\* interpreter has no child, live or zombie, and it never has more than one.
C1_NoChildAtPrompt ==
    /\ pc \in {"prompt", "read"} => children = {}
    /\ Cardinality(children) <= 1

\* C1 witness: the loop is back at the top after a child that took a
\* program's image has ended and been reaped.
C1_Witness ==
    /\ pc = "prompt"
    /\ execd # << >>
    /\ children = {}

\* The user errors: a cd without an argument or to a directory that does not
\* exist, a redirect path that could not be opened, a program execvp does
\* not find.
C2_BadCd ==
    /\ pc = "execute"
    /\ Arg(command, 0) = STR_CD
    /\ Arg(command, 1) = NULL \/ ~Lookup(cwd, Arg(command, 1)).ok

C2_BadRedirect ==
    /\ pc = "wait"
    /\ \E k \in DOMAIN opens : opens[k].errno # "0"

C2_BadProgram ==
    /\ pc = "wait"
    /\ Arg(command, 0) \notin Programs
    /\ \E c \in children : c.st = "exec"

\* C2: a user error is not fatal: from a state in which one has happened
\* the running interpreter reaches the top of its loop again, still running.
C2_UserErrorNotFatal ==
    (status = "running" /\ (C2_BadCd \/ C2_BadRedirect \/ C2_BadProgram))
        ~> (pc = "prompt" /\ status = "running")

\* C2 witness: the loop is at its top, running, after a child reported an
\* error and after a redirect path could not be opened.
C2_Witness ==
    /\ pc = "prompt"
    /\ status = "running"
    /\ Wrote("child", "Error ") # {}
    /\ \E k \in DOMAIN opens : opens[k].errno # "0"

\* The prompt on display: the first text written in an iteration.
C3_PromptShown == pc = "read" /\ cdarg # NULL

\* C3 as stated: after a successful cd to the absolute path P, and until
\* the next successful cd, the prompt on display is exactly P followed by
\* "$ ", and every child has the working directory spelled P.
C3_PromptIsArgument ==
    /\ C3_PromptShown => out[1].text = cdarg \o <<"$", " ">>
    /\ cdarg # NULL => \A c \in children : Getcwd(c.cwd) = cdarg

\* The absolute path of the directory that the absolute path p names.
C3_Canonical(p) == Getcwd(Lookup(ROOT, p).dir)

\* C3 amended: after a successful cd to the absolute path P, and until the
\* next successful cd, the prompt on display is the canonical absolute path
\* of the directory P names followed by "$ ", and every child has that
\* directory as its working directory.
C3_PromptIsCanonical ==
    /\ C3_PromptShown => out[1].text = C3_Canonical(cdarg) \o <<"$", " ">>
    /\ cdarg # NULL => \A c \in children : Getcwd(c.cwd) = C3_Canonical(cdarg)

\* C3 witness: after cd /a a later command has spawned a child, the prompt
\* of that iteration having shown "/a$ ".
C3_Witness ==
    /\ cdarg = STR_DIR_A
    /\ pc = "wait"
    /\ out[1].text = STR_DIR_A \o <<"$", " ">>
    /\ \E c \in children : c.cwd = <<DIR_A>>

\* ---- The tokens of a line, read off the text ----
\* The positions where a token of the line starts: a character that is not
\* a blank or newline, at the start of the line or after a blank or newline.
TokenStarts(line) ==
    { k \in 1..Len(line) :
        /\ line[k] \notin DELIM
        /\ k = 1 \/ line[k - 1] \in DELIM }

\* The token that starts at position k: up to the next blank, newline or end.
TokenFrom(line, k) ==
    LET e == CHOOSE e \in k..Len(line) :
                 /\ e = Len(line) \/ line[e + 1] \in DELIM
                 /\ \A j \in k..e : line[j] \notin DELIM
    IN  SubSeq(line, k, e)

\* The elements of a finite set of numbers in increasing order.
Ascending(S) ==
    [j \in 1..Cardinality(S) |->
        CHOOSE k \in S : Cardinality({m \in S : m < k}) = j - 1]

\* The tokens of the line, in order.
TokensOf(line) ==
    LET at == Ascending(TokenStarts(line))
    IN  [j \in DOMAIN at |-> TokenFrom(line, at[j])]

IsOperator(t) == t = STR_LT \/ t = STR_GT

\* Token j is consumed as a redirect path when an odd number of operator
\* tokens stand directly before it: the first of such a run is an operator,
\* the second its path, the third an operator again, and so on.
IsConsumed(toks, j) ==
    LET m == CHOOSE m \in 0..(j - 1) :
                 /\ m = 0 \/ ~IsOperator(toks[m])
                 /\ \A q \in (m + 1)..(j - 1) : IsOperator(toks[q])
    IN  (j - 1 - m) % 2 = 1

\* The tokens that are neither a standalone operator nor consumed by one.
ArgumentTokens(line) ==
    LET toks == TokensOf(line)
        keep == Ascending({ j \in DOMAIN toks :
                              ~IsConsumed(toks, j) /\ ~IsOperator(toks[j]) })
    IN  [i \in DOMAIN keep |-> toks[keep[i]]]

\* The step in which main calls parseInput and it returns.
Parsed == pc = "got" /\ pc' = "execute"

\* C4: the parsed arguments are exactly the tokens of the line, in order,
\* that are neither a standalone "<" or ">" nor consumed right after one.
C4_ArgsAreTokens ==
    [][Parsed => command'.args = ArgumentTokens(input)]_vars

\* C5 as stated: the argument list is empty only if the whole line consists
\* of blanks and newlines.
C5_EmptyOnlyIfBlank ==
    [][Parsed =>
        (command'.args = << >> => \A k \in DOMAIN input : input[k] \in DELIM)]_vars

\* C5 amended: whenever parseInput returns, the argument list is empty
\* exactly if every token of the line is a "<" or ">" operator or the token
\* consumed by one (which includes the line of blanks and newlines only).
C5_EmptyIffNoArgument ==
    [][Parsed =>
        (command'.args = << >> <=>
            \A j \in DOMAIN TokensOf(input) :
                \/ IsOperator(TokensOf(input)[j])
                \/ IsConsumed(TokensOf(input), j))]_vars

\* C5 witness: a line that is not blank has been parsed into a command with
\* no argument: its only tokens were ">" and the path after it.
C5_Witness ==
    /\ pc = "execute"
    /\ command.args = << >>
    /\ command.outputFile = STR_FILE_X

\* The last token of the line is an operator with no path after it.
TrailingBare(line, op) ==
    LET toks == TokensOf(line)
    IN  /\ toks # << >>
        /\ toks[Len(toks)] = op
        /\ ~IsConsumed(toks, Len(toks))

\* C6: a line that ends in a bare "<" (">") is parsed into a command whose
\* inputFile (outputFile) is absent, no open is ever attempted on an absent
\* path, and a child of a command without inputFile (outputFile) opens
\* nothing for reading (writing).
C6_TrailingBareIsAbsent ==
    [][/\ Parsed /\ TrailingBare(input, STR_LT) => command'.inputFile = NULL
       /\ Parsed /\ TrailingBare(input, STR_GT) => command'.outputFile = NULL
       /\ \A k \in DOMAIN opens' : opens'[k].path # NULL
       /\ pc' = "wait" /\ command'.inputFile = NULL
            => \A k \in DOMAIN opens' : opens'[k].mode # "r"
       /\ pc' = "wait" /\ command'.outputFile = NULL
            => \A k \in DOMAIN opens' : opens'[k].mode # "w"]_vars

\* C6 witness: the line "ls <" was parsed, and its child is past both
\* redirect steps without having opened anything.
C6_Witness ==
    /\ pc = "wait"
    /\ input = <<"l", "s", NUL, "<", NUL>>
    /\ command.inputFile = NULL
    /\ opens = << >>
    /\ \E c \in children : c.st = "exec"

\* C7: when the first argument of the parsed command is "exit", the next
\* step ends the interpreter with status 0, whatever else the line holds and
\* whatever came before; no child exists and nothing was opened or run.
C7_ExitIsImmediate ==
    [][pc = "execute" /\ Arg(command, 0) = STR_EXIT =>
        /\ pc' = "done"
        /\ status' = "exit0"
        /\ children' = {}
        /\ opens' = << >>
        /\ execd' = << >>]_vars

\* C7 witness: the interpreter has ended with status 0 on a line whose first
\* argument is "exit", which has a further argument and an output redirect,
\* in a session that had changed directory before.
C7_Witness ==
    /\ pc = "done"
    /\ status = "exit0"
    /\ Arg(command, 0) = STR_EXIT
    /\ Len(command.args) > 1
    /\ command.outputFile # NULL
    /\ cdarg # NULL

\* How the interpreter can have ended: at the end of input in the read step,
\* by the exit built-in, by malloc failing in the read step.
C8_AtEof == input = NULL /\ stdin = << >> /\ Len(out) = 1
C8_ByExit == input # NULL /\ Arg(command, 0) = STR_EXIT
C8_NoMemory == input = NULL /\ Wrote("shell", "malloc: ") # {}

\* C8 as stated: the interpreter ends only at the end of input or by the
\* exit built-in, and then with status 0.
C8_OnlyTwoEndings ==
    status # "running" => status = "exit0" /\ (C8_AtEof \/ C8_ByExit)

\* C8 amended: the interpreter exits with status 0 at the end of input and
\* by the exit built-in, with status 1 when malloc fails in the read step,
\* and it ends in no other way except killed after parseInput stored past
\* the end of args.
C8_KnownEndings ==
    /\ pc = "done" <=> status # "running"
    /\ status = "exit0" => C8_AtEof \/ C8_ByExit
    /\ status = "exit1" => C8_NoMemory
    /\ status = "killed" => widx >= MAX_ARGS

\* C8 witness: the interpreter has exited with status 1 because malloc
\* failed in the read step.
C8_Witness ==
    /\ pc = "done"
    /\ status = "exit1"
    /\ C8_NoMemory

\* C9: once a child's open of the input redirect has failed, the child has
\* reported the error and is terminated with status 1, no open for writing
\* has been made and no program has been run.
C9_FailedInputEndsChild ==
    \A k \in DOMAIN opens :
        opens[k].mode = "r" /\ opens[k].errno # "0" =>
            /\ \A j \in DOMAIN opens : opens[j].mode # "w"
            /\ execd = << >>
            /\ \E m \in DOMAIN out :
                   out[m] = Written("child", "stdout", TTY, ErrorText(opens[k].errno))
            /\ \A c \in children : c.st = "zombie" /\ c.code = "exit1"

\* C9 witness: the input redirect of a command that also has an output
\* redirect and names a program execvp finds could not be opened.
C9_Witness ==
    /\ pc = "wait"
    /\ \E k \in DOMAIN opens : opens[k].mode = "r" /\ opens[k].errno # "0"
    /\ command.outputFile # NULL
    /\ Arg(command, 0) \in Programs

\* C10: the step in which fork fails writes the error on the error stream
\* and returns to the loop: no child, nothing opened, nothing run, no wait,
\* working directory and descriptors as before.
C10_ForkFailureAbandons ==
    [][pc = "execute" /\ (\E k \in DOMAIN out' : out'[k].text[1] = "fork: ") =>
        /\ out' = Append(out, Written("shell", "stderr", TTY,
                                      <<"fork: ", "EAGAIN", "\n">>))
        /\ pc' = "prompt"
        /\ children' = {}
        /\ opens' = << >>
        /\ execd' = << >>
        /\ cwd' = cwd
        /\ fds' = fds
        /\ status' = "running"]_vars

\* C10 witness: the loop is back at its top after a failed fork, in the
\* directory a previous cd had changed to.
C10_Witness ==
    /\ pc = "prompt"
    /\ Wrote("shell", "fork: ") # {}
    /\ cwd = <<DIR_A>>
    /\ children = {}

\* A parsed cd command that cannot succeed: no argument, or an argument that
\* names no directory.
C11_CdCannotSucceed ==
    /\ pc = "execute"
    /\ Arg(command, 0) = STR_CD
    /\ Arg(command, 1) = NULL \/ ~Lookup(cwd, Arg(command, 1)).ok

C12_BlankLine ==
    /\ pc \in {"got", "execute"}
    /\ \A k \in DOMAIN input : input[k] \in DELIM

\* C12: a line of blanks and newlines only executes nothing: each step that
\* handles it spawns no child, opens no file, runs no program, leaves the
\* working directory and keeps the interpreter running, and it leads to the
\* top of the loop, directly or through the parse of the same line.
C12_BlankLineDoesNothing ==
    [][C12_BlankLine =>
        /\ children' = {}
        /\ opens' = << >>
        /\ execd' = << >>
        /\ cwd' = cwd
        /\ status' = "running"
        /\ \/ pc' = "prompt"
           \/ pc = "got" /\ pc' = "execute" /\ C12_BlankLine']_vars

\* C12 witness: in the directory /a, a line of two blanks and a newline has
\* been parsed into the empty command.
C12_Witness ==
    /\ pc = "execute"
    /\ input = <<" ", " ", "\n">>
    /\ command = NoCommand
    /\ cwd = <<DIR_A>>

\* The positions of the tokens of the line that act as the operator op:
\* they are op and not the path consumed by an operator before them.
OperatorsAt(toks, op) ==
    { j \in DOMAIN toks : toks[j] = op /\ ~IsConsumed(toks, j) }

\* The token that follows the last operator op of the line (NULL if the
\* line ends there).
LastPath(toks, op) ==
    LET S == OperatorsAt(toks, op)
        m == CHOOSE m \in S : \A j \in S : j <= m
    IN  IF m < Len(toks) THEN toks[m + 1] ELSE NULL

\* C13: when the line holds several "<" (">") operators, parseInput returns
\* a command whose inputFile (outputFile) is the token after the last of
\* them, and the paths a child opens are those of the command it runs, so
\* that no earlier path is opened.
C13_LastRedirectWins ==
    [][/\ Parsed /\ Cardinality(OperatorsAt(TokensOf(input), STR_LT)) >= 2
            => command'.inputFile = LastPath(TokensOf(input), STR_LT)
       /\ Parsed /\ Cardinality(OperatorsAt(TokensOf(input), STR_GT)) >= 2
            => command'.outputFile = LastPath(TokensOf(input), STR_GT)
       /\ pc' = "wait" =>
            \A k \in DOMAIN opens' :
                opens'[k].path = IF opens'[k].mode = "r" THEN command'.inputFile
                                 ELSE command'.outputFile]_vars

\* The command a second call of parseInput returns when it is handed the
\* buffer the first call has just worked on.
C14_Reparsed == CommandOf(parseInput(input'))

\* C14 as stated: parsing the same line buffer a second time yields a
\* command identical to the first.
C14_ReparseIsIdentical ==
    [][Parsed => C14_Reparsed = command']_vars

\* The command made of the first token alone: that token as the only
\* argument, or no argument if it is an operator or there is no token.
C14_FirstTokenAlone(toks) ==
    IF toks = << >> \/ IsOperator(toks[1]) THEN NoCommand
    ELSE [args |-> <<toks[1]>>, inputFile |-> NULL, outputFile |-> NULL]

\* C14 amended: parsing the same line buffer a second time yields the
\* command of the line's first token alone, since the first parse has ended
\* the string in the buffer after that token.
C14_ReparseIsFirstToken ==
    [][Parsed => C14_Reparsed = C14_FirstTokenAlone(TokensOf(input))]_vars

\* C14 witness: a line was parsed into a command with two arguments and an
\* input redirect, and the buffer it leaves parses into the first argument
\* alone.
C14_Witness ==
    /\ pc = "execute"
    /\ Len(command.args) = 2
    /\ command.inputFile # NULL
    /\ CommandOf(parseInput(input)) =
           [args |-> <<command.args[1]>>, inputFile |-> NULL, outputFile |-> NULL]

C16_IndexInArray == widx < MAX_ARGS

\* The tokens of the line in the buffer after parseInput has worked on it:
\* the NULs strtok wrote are read as the delimiters they replaced.
C17_TokensTyped ==
    TokensOf([k \in DOMAIN input |-> IF input[k] = NUL THEN " " ELSE input[k]])

\* C17: the interpreter's own descriptors stay bound as at start-up; a
\* command typed without "<" (">") is parsed into a command without
\* inputFile (outputFile), whatever the line before held, and its child has
\* the interpreter's standard input (output).
C17_RedirectIsScoped ==
    /\ fds = [stdin |-> TTY, stdout |-> TTY, stderr |-> TTY]
    /\ pc \in {"execute", "wait"} /\ OperatorsAt(C17_TokensTyped, STR_LT) = {} =>
           /\ command.inputFile = NULL
           /\ \A c \in children : c.fds.stdin = TTY
    /\ pc \in {"execute", "wait"} /\ OperatorsAt(C17_TokensTyped, STR_GT) = {} =>
           /\ command.outputFile = NULL
           /\ \A c \in children : c.fds.stdout = TTY

\* C18: the step in which a line is read starts with nothing of an earlier
\* line pending and leaves nothing of its own line pending: every iteration
\* takes one complete line, and no remainder of a line is read, parsed and
\* executed as a line of its own.
C18_OneLinePerIteration ==
    [][pc = "read" /\ pc' = "got" => stdin = << >> /\ stdin' = << >>]_vars

\* A child is about to call execvp for a command with an output redirect
\* and a program execvp does not find.
C19_ExecWillFail ==
    /\ \E c \in children : c.st = "exec"
    /\ command.outputFile # NULL
    /\ Execvp(Arg(command, 0)) # "0"

\* C19: when execvp fails in the child of a command with an output
\* redirect, the output file has been opened for writing successfully
\* before, and the step writes the child's Error report to that file and to
\* nothing else.
C19_RedirectBeforeExec ==
    [][C19_ExecWillFail =>
        /\ \E k \in DOMAIN opens :
               /\ opens[k].mode = "w"
               /\ opens[k].path = command.outputFile
               /\ opens[k].errno = "0"
        /\ out' = Append(out, Written("child", "stdout", command.outputFile,
                                      ErrorText(Execvp(Arg(command, 0)))))
        /\ execd' = << >>]_vars

\* C19 witness: the child of "/a > /x" has terminated after execvp failed;
\* /x was opened for writing and the last text written is the Error report,
\* in /x.
C19_Witness ==
    /\ pc = "wait"
    /\ command.args = <<STR_DIR_A>>
    /\ opens = <<[pid |-> 1, path |-> STR_FILE_X, mode |-> "w", errno |-> "0"]>>
    /\ \E c \in children : c.st = "zombie" /\ c.code = "exit1"
    /\ out[Len(out)] = Written("child", "stdout", STR_FILE_X, ErrorText("ENOENT"))

\* A parsed command that is a built-in or has no argument.
C20_NotExternal ==
    /\ pc = "execute"
    /\ \/ Arg(command, 0) = NULL
       \/ Arg(command, 0) = STR_CD
       \/ Arg(command, 0) = STR_EXIT

\* C20: the step that executes a built-in or an empty command opens no
\* file, spawns no process and runs no program, whatever redirects the
\* command carries, and does not go on to wait.
C20_BuiltinOpensNothing ==
    [][C20_NotExternal =>
        /\ opens' = << >>
        /\ children' = {}
        /\ execd' = << >>
        /\ pc' \in {"prompt", "done"}]_vars

\* C20 witness: exit has ended the interpreter on a line that carried both
\* an input and an output redirect; nothing was opened and no child exists.
C20_Witness ==
    /\ pc = "done"
    /\ Arg(command, 0) = STR_EXIT
    /\ command.inputFile # NULL
    /\ command.outputFile # NULL
    /\ opens = << >>
    /\ children = {}

====
